---- MODULE Spec2Model ----
(***************************************************************************)
(* ChatService (apps/server chat orchestrator): the per-task registries,   *)
(* the message log, the debounced assistant updates and every operation    *)
(* of the service as a process that yields at each await.                  *)
(***************************************************************************)
EXTENDS Integers, Sequences, FiniteSets, TLC

\* ------------------------------------------------------------------ bounds
MaxEvents == 2        \* chunks one completion stream yields when calls interleave
MaxStreamLen == 3     \* chunks one completion stream yields when a turn runs alone
MaxSeqEvents == 1     \* chunks one completion stream yields in the sequence scenario
MaxEditId == 7        \* message ids an edit request may name
MaxQueueEvents == 2   \* chunks one completion stream yields in the scenarios below

Calls == {1, 2, 3}   \* the calls in flight; each specification names its callers
Tasks == {"t1", "t2", "t3"}

NoCtl == 0           \* activeStreams.get(taskId) === undefined
NoAction == [type |-> "none", message |-> ""]
NoUpdate == [messageId |-> 0, parts |-> <<>>, usage |-> 0, fin |-> ""]

VARIABLES
  activeStreams,   \* Map<taskId, AbortController>: the call that owns the controller
  aborted,         \* controllers whose signal is aborted
  stopRequested,   \* Set<taskId>
  queuedActions,   \* Map<taskId, QueuedAction>
  db,              \* chatMessage rows
  nextId,          \* next row id
  pending,         \* databaseBatchService: the pending update of each task
  status,          \* task.status
  nextCtl,         \* identity of the next AbortController created
  calls,           \* the service calls in progress: position and locals
  cleanupLog,      \* per finished cleanupTask call: its task and whether it changed anything
  tasks,           \* the task rows that exist
  timers,          \* stacked tasks whose first turn is scheduled (setTimeout)
  sidebar          \* the frontend sidebar: props, context view, ref, query, output

vars == <<activeStreams, aborted, stopRequested, queuedActions, db, nextId,
          pending, status, nextCtl, calls, cleanupLog, tasks, timers, sidebar>>

\* the variables only cleanupTask and stacked-task creation write
aux == <<cleanupLog, tasks, timers, sidebar>>

\* the variables of the chat service
service == <<activeStreams, aborted, stopRequested, queuedActions, db, nextId,
             pending, status, nextCtl, calls, cleanupLog, tasks, timers>>

\* ------------------------------------------------------------------ sidebar
\* currentTaskId = null
NoTaskId == "null"
TaskIds == {"t1", "t2", "t3", NoTaskId}

\* export type SidebarView = "tasks" | "agent" | "codebase"
SidebarView == {"tasks", "agent", "codebase"}

\* what useTasks yields: loading, an error, or the task list
QueryStates == {"loading", "error", "data"}

\* the panel the returned tree holds
Panel(id, view) ==
  IF id # NoTaskId /\ view = "codebase" THEN "codebase"
  ELSE IF id # NoTaskId /\ view = "agent" THEN "agent"
  ELSE "tasks"

ViewAfterEffectAlways(first, id, view) == IF id # NoTaskId THEN "agent" ELSE "tasks"

\* the effect body: nothing on the initial render, then the view follows the id
ViewAfterEffect(first, id, view) ==
  IF first THEN view
  ELSE IF id # NoTaskId THEN "agent" ELSE "tasks"

\* while SidebarViewsContent is not mounted the context holds the view and the
\* query cache holds the state of the task list
Unmounted(view, query) ==
  [mounted |-> FALSE, isInitialRender |-> TRUE, currentTaskId |-> NoTaskId,
   sidebarView |-> view, effect |-> FALSE, panel |-> "none", query |-> query]

\* first render: useRef(true), the tree for the props, the effect scheduled
Mount(id) ==
  /\ ~sidebar.mounted
  /\ sidebar' = [sidebar EXCEPT !.mounted = TRUE, !.isInitialRender = TRUE,
                                !.currentTaskId = id, !.effect = TRUE,
                                !.panel = Panel(id, sidebar.sidebarView)]
  /\ UNCHANGED service

\* a render with another currentTaskId: the dependency changed, the effect is scheduled
Navigate(id) ==
  /\ sidebar.mounted /\ ~sidebar.effect
  /\ id # sidebar.currentTaskId
  /\ sidebar' = [sidebar EXCEPT !.currentTaskId = id, !.effect = TRUE,
                                !.panel = Panel(id, sidebar.sidebarView)]
  /\ UNCHANGED service

\* the scheduled effect runs, and the component renders again with the view it set
RunEffect ==
  LET view == ViewAfterEffect(sidebar.isInitialRender, sidebar.currentTaskId,
                              sidebar.sidebarView) IN
  /\ sidebar.mounted /\ sidebar.effect
  /\ sidebar' = [sidebar EXCEPT !.isInitialRender = FALSE, !.effect = FALSE,
                                !.sidebarView = view,
                                !.panel = Panel(sidebar.currentTaskId, view)]
  /\ UNCHANGED service

\* setSidebarView called from SidebarNavigation or another consumer of the context
SetSidebarView(view) ==
  /\ ~sidebar.effect
  /\ view # sidebar.sidebarView
  /\ sidebar' = [sidebar EXCEPT !.sidebarView = view,
                                !.panel = IF sidebar.mounted
                                            THEN Panel(sidebar.currentTaskId, view)
                                            ELSE "none"]
  /\ UNCHANGED service

\* useTasks yields another state and the component renders again
TasksQuery(q) ==
  /\ sidebar.mounted /\ ~sidebar.effect
  /\ q # sidebar.query
  /\ sidebar' = [sidebar EXCEPT !.query = q]
  /\ UNCHANGED service

\* the component leaves the page; the context and the query cache stay
Unmount ==
  /\ sidebar.mounted /\ ~sidebar.effect
  /\ sidebar' = Unmounted(sidebar.sidebarView, sidebar.query)
  /\ UNCHANGED service

\* ------------------------------------------------------------- message log
Row(id, task, seq, role, content, parts, streaming, stacked) ==
  [id |-> id, task |-> task, seq |-> seq, role |-> role, content |-> content,
   parts |-> parts, streaming |-> streaming, usage |-> 0, fin |-> "",
   stacked |-> stacked]

RowsOf(d, task) == {m \in d : m.task = task}

SetMax(S) == IF S = {} THEN 0 ELSE CHOOSE x \in S : \A y \in S : y <= x

NextSequenceNoStep(d, task) == SetMax({m.seq : m \in RowsOf(d, task)})

\* findFirst({where: {taskId}, orderBy: {sequence: "desc"}}); (seq || 0) + 1
NextSequence(d, task) == SetMax({m.seq : m \in RowsOf(d, task)}) + 1

HasRow(d, id) == \E m \in d : m.id = id

\* prisma.chatMessage.deleteMany({where: {taskId, sequence: {gt: seq}}})
DeleteAfterBad(d, task, seq) == {m \in d : ~(m.task = task /\ m.seq >= seq)}
DeleteAfter(d, task, seq) == {m \in d : ~(m.task = task /\ m.seq > seq)}

\* --------------------------------------------------- databaseBatchService
\* scheduleAssistantUpdate(taskId, update): the one pending slot of the task
Schedule(p, task, id, parts, usage, fin) ==
  [p EXCEPT ![task] = [messageId |-> id, parts |-> parts, usage |-> usage,
                       fin |-> fin]]

\* clear(taskId): drops the pending update and its timer
ClearPending(p, task) == [p EXCEPT ![task] = NoUpdate]

\* the write a flush (forced or by the timer) performs
FlushRows(d, p, task) ==
  IF p[task] = NoUpdate THEN d
  ELSE {IF m.id = p[task].messageId
          THEN [m EXCEPT !.parts = p[task].parts, !.usage = p[task].usage,
                         !.fin = p[task].fin]
          ELSE m : m \in d}

\* ------------------------------------------------------------ call records
Idle ==
  [kind |-> "idle", pc |-> "idle", task |-> "t1", queue |-> FALSE,
   skipSave |-> FALSE, msg |-> "", fromQueue |-> FALSE, parentErr |-> FALSE,
   seqTmp |-> 0, asstSeq |-> 0, asstId |-> 0, parts |-> <<>>, usage |-> 0,
   fin |-> "", hasError |-> FALSE, reasoning |-> "", reasoningCounter |-> 0,
   cur |-> "", nEv |-> 0, evlog |-> <<>>, stopped |-> FALSE, nWrites |-> 0,
   interrupted |-> NoCtl, stopDone |-> FALSE, ctl |-> NoCtl, editId |-> 0, editSeq |-> 0, outcome |-> "",
   pipeline |-> FALSE, pipe |-> "", registered |-> FALSE, changed |-> FALSE, child |-> "",
   isReplay |-> FALSE, wantMem |-> FALSE, endAborted |-> FALSE,
   nStarted |-> 0, nEnded |-> 0, lateChunk |-> FALSE]

\* the service starts with empty registries; the log holds an earlier exchange
InitialLog ==
  {Row(1, "t1", 1, "USER", "m", <<>>, FALSE, ""),
   Row(2, "t1", 2, "ASSISTANT", "a", <<>>, FALSE, ""),
   Row(3, "t2", 1, "USER", "m", <<>>, FALSE, ""),
   Row(4, "t2", 2, "ASSISTANT", "a", <<>>, FALSE, ""),
   Row(5, "t2", 3, "USER", "m", <<>>, FALSE, "")}

Init ==
  /\ activeStreams = [t \in Tasks |-> NoCtl]
  /\ aborted = {}
  /\ stopRequested = {}
  /\ queuedActions = [t \in Tasks |-> NoAction]
  /\ db = InitialLog
  /\ nextId = 6
  /\ pending = [t \in Tasks |-> NoUpdate]
  /\ status = [t \in Tasks |-> "RUNNING"]
  /\ nextCtl = 1
  /\ calls = [c \in Calls |-> Idle]
  /\ cleanupLog = <<>>
  /\ tasks = {"t1", "t2"}
  /\ timers = {}
  /\ sidebar = Unmounted("tasks", "data")

Me(c) == calls[c]
SetCall(c, r) == calls' = [calls EXCEPT ![c] = r]
FirstIdle(c) == calls[c].kind = "idle" /\ \A d \in Calls : d < c => calls[d].kind # "idle"
MsgOf(c) == "m" \o ToString(c)

\* ------------------------------------------------------------- stopStream
StopFlagEvery(sr, task) == sr \cup Tasks

\* this.stopRequested.add(taskId)
StopFlag(sr, task) == sr \cup {task}

AbortRegisteredNever(ab, as, task) == ab

\* abortController.abort() on the registered controller, if any
AbortRegistered(ab, as, task) == IF as[task] # NoCtl THEN ab \cup {as[task]} ELSE ab

UnregisterForgets(as, task) == as

\* this.activeStreams.delete(taskId)
Unregister(as, task) == [as EXCEPT ![task] = NoCtl]

\* the synchronous prefix of stopStream, up to its first await
StopStreamSync(task) ==
  /\ stopRequested' = StopFlag(stopRequested, task)
  /\ aborted' = AbortRegistered(aborted, activeStreams, task)
  /\ activeStreams' = Unregister(activeStreams, task)

QueueMessageKeepFirst(qa, task, msg) ==
  IF qa[task] # NoAction THEN qa ELSE [qa EXCEPT ![task] = [type |-> "message", message |-> msg]]

\* this.queuedActions.set(taskId, {type: "message", ...}): last write wins
QueueMessage(qa, task, msg) == [qa EXCEPT ![task] = [type |-> "message", message |-> msg]]

ClearQueuedKeeps(qa, task) == qa

\* this.queuedActions.delete(taskId)
ClearQueued(qa, task) == [qa EXCEPT ![task] = NoAction]

\* ------------------------------------------------------ processUserMessage
\* a finished call keeps its kind, task and outcome
Finish(me, how) ==
  [Idle EXCEPT !.kind = me.kind, !.pc = "done", !.task = me.task, !.outcome = how]

AfterBranchSaves(me) == "save"

\* where a turn goes once no stream is in its way
AfterBranch(me) == IF me.skipSave THEN "history" ELSE "save"

\* _processUserMessageInternal after handleFollowUpLogic: with queue set and a stream
\* registered the message is queued and the call returns; with queue unset and a
\* stream registered the stream is stopped first; else the turn goes on
Branch(c, me) ==
  IF activeStreams[me.task] # NoCtl /\ me.queue
    THEN /\ queuedActions' = QueueMessage(queuedActions, me.task, me.msg)
         /\ SetCall(c, Finish(me, "queued"))
         /\ UNCHANGED <<activeStreams, aborted, stopRequested>>
  ELSE IF activeStreams[me.task] # NoCtl
    THEN /\ StopStreamSync(me.task)
         /\ SetCall(c, [me EXCEPT !.pc = "stop_flush",
                                  !.interrupted = activeStreams[me.task]])
         /\ UNCHANGED queuedActions
  ELSE /\ SetCall(c, [me EXCEPT !.pc = AfterBranch(me), !.queue = FALSE])
       /\ UNCHANGED <<activeStreams, aborted, stopRequested, queuedActions>>

\* a caller submits a message: processUserMessage({taskId, userMessage, queue})
Submit(c, t, q) ==
  /\ FirstIdle(c)
  /\ t \in tasks
  /\ Branch(c, [Idle EXCEPT !.kind = "submit", !.pc = "follow", !.task = t,
                            !.queue = q, !.msg = MsgOf(c)])
  /\ UNCHANGED <<db, nextId, pending, status, nextCtl, aux>>

\* a caller queues a message behind the stream it sees: processUserMessage({queue: true})
SubmitBehind(c, t) ==
  /\ activeStreams[t] # NoCtl
  /\ Submit(c, t, TRUE)

\* the turn of a dequeued message, of an edit or of a new stacked task reaches the branch
Follow(c) ==
  /\ Me(c).pc = "follow"
  /\ Branch(c, Me(c))
  /\ UNCHANGED <<db, nextId, pending, status, nextCtl, aux>>

\* stopStream: await databaseBatchService.flushAssistantUpdate(taskId)
StopFlush(c) ==
  LET me == Me(c) IN
  /\ me.pc = "stop_flush"
  /\ db' = FlushRows(db, pending, me.task)
  /\ pending' = ClearPending(pending, me.task)
  /\ SetCall(c, [me EXCEPT !.pc = "stop_status"])
  /\ UNCHANGED <<activeStreams, aborted, stopRequested, queuedActions, nextId, status,
                 nextCtl, aux>>

\* stopStream: await updateTaskStatus(taskId, "STOPPED"); then the caller goes on:
\* the interrupting submit drops the queued action and sleeps 100 ms before its next
\* step, the edit clears the queued action and updates the message, a stop request returns
StopStatus(c) ==
  LET me == Me(c) IN
  /\ me.pc = "stop_status"
  /\ status' = [status EXCEPT ![me.task] = "STOPPED"]
  /\ queuedActions' = IF me.kind = "stop" THEN queuedActions
                      ELSE ClearQueued(queuedActions, me.task)
  /\ SetCall(c, CASE me.kind = "stop" -> Finish(me, "stopped")
                  [] me.kind = "edit" -> [me EXCEPT !.pc = "e_update", !.stopDone = TRUE]
                  [] OTHER -> [me EXCEPT !.pc = AfterBranch(me), !.stopDone = TRUE])
  /\ UNCHANGED <<activeStreams, aborted, stopRequested, db, nextId, pending, nextCtl, aux>>

\* saveUserMessage -> createMessageWithAtomicSequence: read and insert in one transaction
SaveUser(c) ==
  LET me == Me(c) IN
  /\ me.pc = "save"
  /\ db' = db \cup {Row(nextId, me.task, NextSequence(db, me.task), "USER", me.msg,
                         <<>>, FALSE, "")}
  /\ nextId' = nextId + 1
  /\ SetCall(c, [me EXCEPT !.pc = "history"])
  /\ UNCHANGED <<activeStreams, aborted, stopRequested, queuedActions, pending, status,
                 nextCtl, aux>>

\* getChatHistory: the rows of the task ordered by sequence, then creation
LastRow(rows) ==
  CHOOSE m \in rows : \A n \in rows : n.seq < m.seq \/ (n.seq = m.seq /\ n.id <= m.id)

\* history.slice(0, -1).filter(...): every row but the last, stacked-task references dropped
HistoryRows(d, task) ==
  LET rows == RowsOf(d, task) IN
  IF rows = {} THEN {}
  ELSE {m \in rows \ {LastRow(rows)} : ~(m.role = "USER" /\ m.stacked # "")}

\* !messages.some((msg) => msg.role === "system")
IsFirstMessage(d, task) == ~\E m \in HistoryRows(d, task) : m.role = "SYSTEM"

\* startStream(taskId); this.activeStreams.set(taskId, new AbortController())
Register(as, task, ctl) == [as EXCEPT ![task] = ctl]

\* the realtime channel: startStream sends "stream started", endStream and
\* handleStreamError send the terminal notification, emitStreamChunk sends a chunk
StartStreamNote(me) == [me EXCEPT !.nStarted = @ + 1]
EndStreamNote(me) == [me EXCEPT !.nEnded = @ + 1]
ChunkNote(me) == [me EXCEPT !.lateChunk = @ \/ me.nEnded > 0]

\* createTools and getSystemPrompt follow; the turn then awaits the first chunk
RegisterCall(me) ==
  StartStreamNote([me EXCEPT !.pc = "loop", !.ctl = nextCtl, !.registered = TRUE])

\* getChatHistory, getShadowWikiMessage and getMemoriesForTask resolve. On the first
\* message each system message that exists is saved (sequence first, insert next);
\* with nothing to save the stream is registered at once
History(c, wiki, mem) ==
  LET me == Me(c)
      first == IsFirstMessage(db, me.task) IN
  /\ me.pc = "history"
  /\ IF first /\ (wiki \/ mem)
       THEN /\ SetCall(c, [me EXCEPT !.pc = IF wiki THEN "wiki_seq" ELSE "mem_seq",
                                     !.wantMem = mem])
            /\ UNCHANGED <<activeStreams, nextCtl>>
       ELSE /\ SetCall(c, RegisterCall(me))
            /\ activeStreams' = Register(activeStreams, me.task, nextCtl)
            /\ nextCtl' = nextCtl + 1
  /\ UNCHANGED <<aborted, stopRequested, queuedActions, db, nextId, pending, status, aux>>

\* getNextSequence: a transaction that only reads the last sequence
SystemSeq(c) ==
  LET me == Me(c) IN
  /\ me.pc \in {"wiki_seq", "mem_seq"}
  /\ SetCall(c, [me EXCEPT !.seqTmp = NextSequence(db, me.task),
                           !.pc = IF me.pc = "wiki_seq" THEN "wiki_ins" ELSE "mem_ins"])
  /\ UNCHANGED <<activeStreams, aborted, stopRequested, queuedActions, db, nextId,
                 pending, status, nextCtl, aux>>

\* saveSystemMessage(taskId, content, model, sequence): insert with the sequence read before
SystemInsert(c) ==
  LET me == Me(c) IN
  /\ me.pc \in {"wiki_ins", "mem_ins"}
  /\ db' = db \cup {Row(nextId, me.task, me.seqTmp, "SYSTEM", "sys", <<>>, FALSE, "")}
  /\ nextId' = nextId + 1
  /\ IF me.pc = "wiki_ins" /\ me.wantMem
       THEN /\ SetCall(c, [me EXCEPT !.pc = "mem_seq", !.seqTmp = 0])
            /\ UNCHANGED <<activeStreams, nextCtl>>
       ELSE /\ SetCall(c, [RegisterCall(me) EXCEPT !.seqTmp = 0])
            /\ activeStreams' = Register(activeStreams, me.task, nextCtl)
            /\ nextCtl' = nextCtl + 1
  /\ UNCHANGED <<aborted, stopRequested, queuedActions, pending, status, aux>>

\* createTools or getSystemPrompt rejects: the call is outside the try block
ToolsThrow(c) ==
  LET me == Me(c) IN
  /\ me.pc = "loop" /\ me.nEv = 0
  /\ SetCall(c, Finish(me, "threw-outside"))
  /\ UNCHANGED <<activeStreams, aborted, stopRequested, queuedActions, db, nextId,
                 pending, status, nextCtl, aux>>

\* ---------------------------------------------------------- stream reducer
Ev(type, text, id, name) == [type |-> type, text |-> text, id |-> id, name |-> name]

Part(type, text, id, name, sig) ==
  [type |-> type, text |-> text, id |-> id, name |-> name, sig |-> sig]

\* the copy shown to the user for rate-limit and retry-exhaustion errors
UserFriendlyError(text) ==
  CASE text = "" -> "Unknown error occurred"
    [] text \in {"Too Many Requests", "rate limit"} -> "high demand"
    [] text = "Failed after 3 attempts" -> "temporarily unavailable"
    [] OTHER -> text

ToolNameForNone(parts, id) == ""

\* assistantParts.find(part => part.type === "tool-call" && part.toolCallId === id)
ToolNameFor(parts, id) ==
  LET hits == {i \in 1..Len(parts) : parts[i].type = "tool-call" /\ parts[i].id = id} IN
  IF hits = {} THEN "" ELSE parts[CHOOSE i \in hits : \A j \in hits : i <= j].name

\* assistantParts.filter(part => part.type === "text").map(part => part.text).join("")
RECURSIVE FullContent(_)
FullContent(parts) ==
  IF parts = <<>> THEN ""
  ELSE (IF Head(parts).type = "text" THEN Head(parts).text ELSE "") \o FullContent(Tail(parts))

FinalizesAlways(me, ev) == ev.type = "reasoning-signature" /\ ev.text # ""

\* a reasoning-signature chunk that finds the pending block of the current counter
Finalizes(me, ev) == ev.type = "reasoning-signature" /\ ev.text # "" /\ me.reasoning # ""

PartsAfterFront(me, ev) ==
  IF ev.type = "content" /\ ev.text # ""
    THEN <<Part("text", ev.text, "", "", "")>> \o me.parts
    ELSE me.parts

\* the parts list after the synchronous handling of one chunk
PartsAfter(me, ev) ==
  CASE ev.type = "content" /\ ev.text # "" ->
         Append(me.parts, Part("text", ev.text, "", "", ""))
    [] Finalizes(me, ev) ->
         Append(me.parts, Part("reasoning", me.reasoning, "", "", ev.text))
    [] ev.type = "redacted-reasoning" /\ ev.text # "" ->
         Append(me.parts, Part("redacted-reasoning", ev.text, "", "", ""))
    [] ev.type = "tool-call" ->
         Append(me.parts, Part("tool-call", "", ev.id, ev.name, ""))
    [] ev.type = "tool-result" ->
         Append(me.parts, Part("tool-result", "", ev.id, ToolNameFor(me.parts, ev.id), ""))
    [] ev.type = "error" ->
         Append(me.parts, Part("error", UserFriendlyError(ev.text), "", "", ""))
    [] OTHER -> me.parts

\* the chunk kinds that create the assistant row when assistantSequence === null
CreatesRow(me, ev) ==
  /\ me.asstSeq = 0
  /\ ev.type \in {"content", "reasoning", "redacted-reasoning"}
  /\ ev.text # ""

SchedulesUpdateNever(me, ev) == FALSE

\* the chunks after which databaseBatchService.scheduleAssistantUpdate is called
SchedulesUpdate(me, ev) ==
  /\ me.asstId # 0
  /\ \/ ev.type \in {"content", "redacted-reasoning"} /\ ev.text # "" /\ me.asstSeq # 0
     \/ Finalizes(me, ev)
     \/ ev.type \in {"tool-call", "tool-result"}

\* content stored with the new row: the chunk's text or the placeholder
RowContent(ev) == IF ev.type = "redacted-reasoning" THEN "[Redacted reasoning]" ELSE ev.text

ReasoningAfterKeeps(me, ev) ==
  IF ev.type = "reasoning" /\ ev.text # "" THEN me.reasoning \o ev.text ELSE me.reasoning

\* activeReasoningParts at the current counter: a reasoning chunk extends the block,
\* a signature that finalizes it deletes it
ReasoningAfter(me, ev) ==
  IF ev.type = "reasoning" /\ ev.text # "" THEN me.reasoning \o ev.text
  ELSE IF Finalizes(me, ev) THEN "" ELSE me.reasoning

\* the turn's locals after the synchronous handling of one chunk, up to the next await
Handle(me, ev) ==
  [ChunkNote(me) EXCEPT
     !.parts = PartsAfter(me, ev),
     !.reasoning = ReasoningAfter(me, ev),
     !.reasoningCounter = IF Finalizes(me, ev) THEN @ + 1 ELSE @,
     !.usage = IF ev.type = "usage" THEN 1 ELSE @,
     !.fin = IF ev.type = "error" THEN "error" ELSE @,
     !.hasError = IF ev.type = "error" THEN TRUE ELSE @,
     !.cur = IF CreatesRow(me, ev) THEN RowContent(ev) ELSE @,
     !.nEv = @ + 1,
     !.evlog = Append(@, ev),
     !.pc = CASE ev.type = "error" -> IF me.asstId # 0 THEN "err_write" ELSE "err_status"
              [] CreatesRow(me, ev) -> "asst_seq"
              [] OTHER -> "loop"]

FinalizeReasoningDrops(parts, reasoning) == parts

\* for (const reasoningPart of activeReasoningParts.values()) assistantParts.push(...)
FinalizeReasoning(parts, reasoning) ==
  IF reasoning # "" THEN Append(parts, Part("reasoning", reasoning, "", "", "")) ELSE parts

\* the code after the loop, up to its first await: the stop check, the remaining
\* reasoning, and the choice of the final write
PostLoop(me) ==
  [me EXCEPT
     !.stopped = me.task \in stopRequested,
     !.endAborted = me.ctl \in aborted,
     !.parts = FinalizeReasoning(me.parts, me.reasoning),
     !.reasoning = "",
     !.pc = IF me.asstId = 0 THEN "status"
            ELSE IF me.usage # 0 THEN "final_write" ELSE "final_flush"]

PostLoopPending(me) == IF me.asstId # 0 THEN ClearPending(pending, me.task) ELSE pending

\* the stream yields a chunk: the loop stops on a stop request, else handles it
Chunk(c, ev, max) ==
  LET me == Me(c) IN
  /\ me.pc = "loop" /\ me.nEv < max
  /\ IF me.task \in stopRequested
       THEN /\ SetCall(c, PostLoop([me EXCEPT !.nEv = @ + 1]))
            /\ pending' = PostLoopPending(me)
       ELSE /\ SetCall(c, Handle(me, ev))
            /\ pending' =
                 IF ev.type = "error"
                   THEN (IF me.asstId # 0 THEN ClearPending(pending, me.task) ELSE pending)
                 ELSE IF SchedulesUpdate(me, ev)
                   THEN Schedule(pending, me.task, me.asstId, PartsAfter(me, ev),
                                 me.usage, me.fin)
                 ELSE pending
  /\ UNCHANGED <<activeStreams, aborted, stopRequested, queuedActions, db, nextId,
                 status, nextCtl, aux>>

\* the stream ends
StreamEnd(c) ==
  LET me == Me(c) IN
  /\ me.pc = "loop"
  /\ SetCall(c, PostLoop(me))
  /\ pending' = PostLoopPending(me)
  /\ UNCHANGED <<activeStreams, aborted, stopRequested, queuedActions, db, nextId,
                 status, nextCtl, aux>>

\* the stream rejects: control passes to the catch block
StreamThrow(c) ==
  LET me == Me(c) IN
  /\ me.pc = "loop"
  /\ SetCall(c, [me EXCEPT !.pc = "catch_status"])
  /\ UNCHANGED <<activeStreams, aborted, stopRequested, queuedActions, db, nextId,
                 pending, status, nextCtl, aux>>

\* assistantSequence = await this.getNextSequence(taskId)
AssistantSeq(c) ==
  LET me == Me(c) IN
  /\ me.pc = "asst_seq"
  /\ SetCall(c, [me EXCEPT !.asstSeq = NextSequence(db, me.task), !.pc = "asst_ins"])
  /\ UNCHANGED <<activeStreams, aborted, stopRequested, queuedActions, db, nextId,
                 pending, status, nextCtl, aux>>

\* saveAssistantMessage(taskId, content, model, assistantSequence, {isStreaming, parts})
AssistantInsert(c) ==
  LET me == Me(c) IN
  /\ me.pc = "asst_ins"
  /\ db' = db \cup {Row(nextId, me.task, me.asstSeq, "ASSISTANT", me.cur, me.parts,
                         TRUE, "")}
  /\ nextId' = nextId + 1
  /\ SetCall(c, [me EXCEPT !.asstId = nextId, !.pc = "loop"])
  /\ UNCHANGED <<activeStreams, aborted, stopRequested, queuedActions, pending, status,
                 nextCtl, aux>>

\* the immediate update of the error branch: content, parts, finishReason, isStreaming false
ErrorUpdate(d, id, parts, fin) ==
  {IF m.id = id
     THEN [m EXCEPT !.content = FullContent(parts), !.parts = parts,
                    !.streaming = FALSE, !.fin = fin]
     ELSE m : m \in d}

FinalUpdateKeepsContent(d, id, parts, usage, fin) ==
  {IF m.id = id
     THEN [m EXCEPT !.parts = parts, !.streaming = FALSE, !.usage = usage, !.fin = fin]
     ELSE m : m \in d}

\* the final update after the loop: content, parts, usage, finishReason, isStreaming false
FinalUpdate(d, id, parts, usage, fin) ==
  {IF m.id = id
     THEN [m EXCEPT !.content = FullContent(parts), !.parts = parts,
                    !.streaming = FALSE, !.usage = usage, !.fin = fin]
     ELSE m : m \in d}

\* error chunk: await prisma.chatMessage.update(...); a missing row rejects
ErrorWrite(c) ==
  LET me == Me(c) IN
  /\ me.pc = "err_write"
  /\ IF HasRow(db, me.asstId)
       THEN /\ db' = ErrorUpdate(db, me.asstId, me.parts, me.fin)
            /\ SetCall(c, [me EXCEPT !.pc = "err_status", !.nWrites = @ + 1])
       ELSE /\ db' = db
            /\ SetCall(c, [me EXCEPT !.pc = "catch_status"])
  /\ UNCHANGED <<activeStreams, aborted, stopRequested, queuedActions, nextId, pending,
                 status, nextCtl, aux>>

\* error chunk: updateTaskStatus(FAILED), then the stream tracking is released
ErrorStatus(c) ==
  LET me == Me(c) IN
  /\ me.pc = "err_status"
  /\ status' = [status EXCEPT ![me.task] = "FAILED"]
  /\ activeStreams' = Unregister(activeStreams, me.task)
  /\ stopRequested' = stopRequested \ {me.task}
  /\ SetCall(c, EndStreamNote([me EXCEPT !.pc = "err_mcp"]))
  /\ UNCHANGED <<aborted, queuedActions, db, nextId, pending, nextCtl, aux>>

\* error chunk: stopMCPManager resolves, the queued action is cleared, the loop is left
ErrorBreak(c) ==
  LET me == Me(c) IN
  /\ me.pc = "err_mcp"
  /\ queuedActions' = ClearQueued(queuedActions, me.task)
  /\ SetCall(c, PostLoop(me))
  /\ pending' = PostLoopPending(me)
  /\ UNCHANGED <<activeStreams, aborted, stopRequested, db, nextId, status, nextCtl, aux>>

\* final update with usage: await prisma.chatMessage.update(...)
FinalWrite(c) ==
  LET me == Me(c) IN
  /\ me.pc = "final_write"
  /\ IF HasRow(db, me.asstId)
       THEN /\ db' = FinalUpdate(db, me.asstId, me.parts, me.usage, me.fin)
            /\ SetCall(c, [me EXCEPT !.pc = "status", !.nWrites = @ + 1])
       ELSE /\ db' = db
            /\ SetCall(c, [me EXCEPT !.pc = "catch_status"])
  /\ UNCHANGED <<activeStreams, aborted, stopRequested, queuedActions, nextId, pending,
                 status, nextCtl, aux>>

\* final update without usage: await databaseBatchService.flushAssistantUpdate(taskId)
FinalFlush(c) ==
  LET me == Me(c) IN
  /\ me.pc = "final_flush"
  /\ db' = FlushRows(db, pending, me.task)
  /\ pending' = ClearPending(pending, me.task)
  /\ SetCall(c, [me EXCEPT !.pc = "status"])
  /\ UNCHANGED <<activeStreams, aborted, stopRequested, queuedActions, nextId, status,
                 nextCtl, aux>>

ClassifyIgnoresError(me) == IF me.stopped THEN "stopped" ELSE "completed"

\* how the turn ended
Classify(me) ==
  IF me.hasError THEN "failed" ELSE IF me.stopped THEN "stopped" ELSE "completed"

\* what the post-completion pipeline can do: commit, PR and checkpoint all succeed,
\* nothing to commit, or one of the three rejects
PipelineOutcomes == {"ok", "no-changes", "commit-throws", "pr-throws", "checkpoint-throws"}

AfterPipelineRethrows(pipe) ==
  IF pipe \in {"commit-throws", "pr-throws", "checkpoint-throws"} THEN "catch_status"
  ELSE "teardown"

\* try { commitChangesIfAny; createPRIfUserEnabled; createCheckpoint } catch { log }
AfterPipeline(pipe) == "teardown"

\* updateTaskStatus by outcome and scheduleTaskCleanup; a completed turn then runs
\* commitChangesIfAny, createPRIfUserEnabled and createCheckpoint, which end as pipe
StatusStep(c, pipe) ==
  LET me == Me(c)
      how == Classify(me) IN
  /\ me.pc = "status"
  /\ status' = CASE how = "failed" -> status
                 [] how = "stopped" -> [status EXCEPT ![me.task] = "STOPPED"]
                 [] OTHER -> [status EXCEPT ![me.task] = "COMPLETED"]
  /\ SetCall(c, [me EXCEPT !.outcome = how, !.pipeline = (how = "completed"),
                           !.pipe = IF how = "completed" THEN pipe ELSE "",
                           !.pc = IF how = "completed" THEN AfterPipeline(pipe)
                                  ELSE "teardown"])
  /\ UNCHANGED <<activeStreams, aborted, stopRequested, queuedActions, db, nextId,
                 pending, nextCtl, aux>>

\* the same step with a pipeline that succeeds
StatusByOutcome(c) ==
  /\ Me(c).pc = "status"
  /\ StatusStep(c, "ok")

\* this.activeStreams.delete(taskId); this.stopRequested.delete(taskId); endStream(taskId)
Teardown(c) ==
  LET me == Me(c) IN
  /\ me.pc = "teardown"
  /\ activeStreams' = Unregister(activeStreams, me.task)
  /\ stopRequested' = stopRequested \ {me.task}
  /\ SetCall(c, EndStreamNote([me EXCEPT !.pc = "pqa"]))
  /\ UNCHANGED <<aborted, queuedActions, db, nextId, pending, status, nextCtl, aux>>

\* what a dequeued action starts: processUserMessage({..., queue: false}) for a
\* message, _createStackedTaskInternal for a stacked-pr
QueuedTurn(me, action) ==
  [Idle EXCEPT !.kind = IF action.type = "message" THEN "submit" ELSE "stacked",
               !.pc = IF action.type = "message" THEN "follow" ELSE "sp_parent",
               !.task = me.task, !.msg = action.message, !.fromQueue = TRUE,
               !.parentErr = me.hasError]

\* processQueuedActions: nothing queued, or the action is removed and processed
ProcessQueuedActions(c) ==
  LET me == Me(c)
      action == queuedActions[me.task] IN
  /\ me.pc = "pqa"
  /\ IF action = NoAction
       THEN /\ SetCall(c, Finish(me, me.outcome))
            /\ UNCHANGED queuedActions
       ELSE /\ queuedActions' = ClearQueued(queuedActions, me.task)
            /\ SetCall(c, QueuedTurn(me, action))
  /\ UNCHANGED <<activeStreams, aborted, stopRequested, db, nextId, pending, status,
                 nextCtl, aux>>

\* catch: updateTaskStatus(FAILED), error chunk emitted, stream tracking released
CatchStatus(c) ==
  LET me == Me(c) IN
  /\ me.pc = "catch_status"
  /\ status' = [status EXCEPT ![me.task] = "FAILED"]
  /\ activeStreams' = Unregister(activeStreams, me.task)
  /\ stopRequested' = stopRequested \ {me.task}
  /\ SetCall(c, EndStreamNote(ChunkNote([me EXCEPT !.pc = "catch_mcp"])))
  /\ UNCHANGED <<aborted, queuedActions, db, nextId, pending, nextCtl, aux>>

\* catch: the queued action is cleared and the error is thrown again
CatchRethrow(c) ==
  LET me == Me(c) IN
  /\ me.pc = "catch_mcp"
  /\ queuedActions' = ClearQueued(queuedActions, me.task)
  /\ SetCall(c, Finish(me, "threw"))
  /\ UNCHANGED <<activeStreams, aborted, stopRequested, db, nextId, pending, status,
                 nextCtl, aux>>

\* databaseBatchService: the debounce timer of a task fires and writes its pending update
BatchTimer(t) ==
  /\ pending[t] # NoUpdate
  /\ db' = FlushRows(db, pending, t)
  /\ pending' = ClearPending(pending, t)
  /\ UNCHANGED <<activeStreams, aborted, stopRequested, queuedActions, nextId, status,
                 nextCtl, calls, aux>>

\* --------------------------------------------------------------- stopStream
\* a caller asks to stop the stream of a task: stopStream(taskId)
StartStop(c, t) ==
  /\ FirstIdle(c)
  /\ StopStreamSync(t)
  /\ SetCall(c, [Idle EXCEPT !.kind = "stop", !.pc = "stop_flush", !.task = t,
                             !.interrupted = activeStreams[t]])
  /\ UNCHANGED <<queuedActions, db, nextId, pending, status, nextCtl, aux>>

\* ---------------------------------------------------------- editUserMessage
\* editUserMessage({taskId, messageId, newContent}): stops an active stream first,
\* else clears the queued action and updates the message
StartEdit(c, t, id) ==
  /\ FirstIdle(c)
  /\ \E m \in db : m.id = id /\ m.task = t /\ m.role = "USER"
  /\ IF activeStreams[t] # NoCtl
       THEN /\ StopStreamSync(t)
            /\ SetCall(c, [Idle EXCEPT !.kind = "edit", !.pc = "stop_flush", !.task = t,
                                       !.editId = id, !.msg = MsgOf(c),
                                       !.interrupted = activeStreams[t]])
            /\ UNCHANGED queuedActions
       ELSE /\ queuedActions' = ClearQueued(queuedActions, t)
            /\ SetCall(c, [Idle EXCEPT !.kind = "edit", !.pc = "e_update", !.task = t,
                                       !.editId = id, !.msg = MsgOf(c)])
            /\ UNCHANGED <<activeStreams, aborted, stopRequested>>
  /\ UNCHANGED <<db, nextId, pending, status, nextCtl, aux>>

\* prisma.chatMessage.update({where: {id: messageId}, data: {content, llmModel, editedAt}})
EditUpdate(c) ==
  LET me == Me(c) IN
  /\ me.pc = "e_update"
  /\ IF HasRow(db, me.editId)
       THEN /\ db' = {IF m.id = me.editId THEN [m EXCEPT !.content = me.msg] ELSE m : m \in db}
            /\ SetCall(c, [me EXCEPT !.pc = "e_find"])
       ELSE /\ db' = db
            /\ SetCall(c, Finish(me, "threw"))
  /\ UNCHANGED <<activeStreams, aborted, stopRequested, queuedActions, nextId, pending,
                 status, nextCtl, aux>>

\* findUnique({where: {id: messageId}, select: {sequence}}); then restoreCheckpoint
EditFind(c) ==
  LET me == Me(c) IN
  /\ me.pc = "e_find"
  /\ IF HasRow(db, me.editId)
       THEN SetCall(c, [me EXCEPT !.pc = "e_delete",
                                  !.editSeq = (CHOOSE m \in db : m.id = me.editId).seq])
       ELSE SetCall(c, Finish(me, "threw"))
  /\ UNCHANGED <<activeStreams, aborted, stopRequested, queuedActions, db, nextId,
                 pending, status, nextCtl, aux>>

\* deleteMany of the later messages, then processUserMessage({skipUserMessageSave: true,
\* queue: false}) replays from the edited message
EditDelete(c) ==
  LET me == Me(c) IN
  /\ me.pc = "e_delete"
  /\ db' = DeleteAfter(db, me.task, me.editSeq)
  /\ SetCall(c, [me EXCEPT !.kind = "submit", !.pc = "follow", !.skipSave = TRUE,
                           !.queue = FALSE, !.isReplay = TRUE])
  /\ UNCHANGED <<activeStreams, aborted, stopRequested, queuedActions, nextId, pending,
                 status, nextCtl, aux>>

\* -------------------------------------------------------------- cleanupTask
\* cleanupTask(taskId), up to await stopMCPManager: abort and drop the registered controller
StartCleanup(c, t) ==
  /\ FirstIdle(c)
  /\ aborted' = AbortRegistered(aborted, activeStreams, t)
  /\ activeStreams' = Unregister(activeStreams, t)
  /\ SetCall(c, [Idle EXCEPT !.kind = "cleanup", !.pc = "c_mcp", !.task = t,
                             !.changed = (activeStreams[t] # NoCtl)])
  /\ UNCHANGED <<stopRequested, queuedActions, db, nextId, pending, status, nextCtl, aux>>

\* cleanupTask after stopMCPManager: queuedActions.delete and databaseBatchService.clear
CleanupFinish(c) ==
  LET me == Me(c) IN
  /\ me.pc = "c_mcp"
  /\ queuedActions' = ClearQueued(queuedActions, me.task)
  /\ pending' = ClearPending(pending, me.task)
  /\ cleanupLog' = Append(cleanupLog,
                          <<me.task, me.changed \/ queuedActions[me.task] # NoAction
                                       \/ pending[me.task] # NoUpdate>>)
  /\ SetCall(c, Finish(me, "cleaned"))
  /\ UNCHANGED <<activeStreams, aborted, stopRequested, db, nextId, status, nextCtl,
                 tasks, timers, sidebar>>

\* ------------------------------------------------------------ createStackedPR
QueueStackedKeepFirst(qa, task, msg) ==
  IF qa[task] # NoAction THEN qa
  ELSE [qa EXCEPT ![task] = [type |-> "stacked-pr", message |-> msg]]

\* this.queuedActions.set(parentTaskId, {type: "stacked-pr", ...})
QueueStacked(qa, task, msg) == [qa EXCEPT ![task] = [type |-> "stacked-pr", message |-> msg]]

\* createStackedPR({parentTaskId, message, queue}): queued behind an active stream when
\* queue is set, else the stacked task is created now
StartStacked(c, t, q) ==
  /\ FirstIdle(c)
  /\ t \in tasks
  /\ IF activeStreams[t] # NoCtl /\ q
       THEN /\ queuedActions' = QueueStacked(queuedActions, t, MsgOf(c))
            /\ SetCall(c, [Idle EXCEPT !.kind = "stacked", !.pc = "done", !.task = t,
                                       !.outcome = "queued"])
       ELSE /\ UNCHANGED queuedActions
            /\ SetCall(c, [Idle EXCEPT !.kind = "stacked", !.pc = "sp_parent", !.task = t,
                                       !.msg = MsgOf(c)])
  /\ UNCHANGED <<activeStreams, aborted, stopRequested, db, nextId, pending, status,
                 nextCtl, aux>>

ParentCheckedCreates(me, ok) ==
  [me EXCEPT !.pc = "sp_create",
             !.outcome = IF ok THEN me.outcome
                         ELSE IF me.fromQueue THEN "logged" ELSE "message-error"]

\* the parent and owner checks throw before anything is created; the catch of
\* createStackedPR emits "message-error", the catch of processQueuedActions only logs
ParentChecked(me, ok) ==
  IF ok THEN [me EXCEPT !.pc = "sp_create"]
  ELSE Finish(me, IF me.fromQueue THEN "logged" ELSE "message-error")

\* _createStackedTaskInternal: the parent is found and owned by the user, or it throws
StackedParent(c, ok) ==
  LET me == Me(c) IN
  /\ me.pc = "sp_parent"
  /\ SetCall(c, ParentChecked(me, ok))
  /\ UNCHANGED <<activeStreams, aborted, stopRequested, queuedActions, db, nextId,
                 pending, status, nextCtl, aux>>

\* prisma.task.create: the new task with its first message at sequence 1
StackedCreate(c, child) ==
  LET me == Me(c) IN
  /\ me.pc = "sp_create"
  /\ child \in Tasks \ tasks
  /\ tasks' = tasks \cup {child}
  /\ db' = db \cup {Row(nextId, child, 1, "USER", me.msg, <<>>, FALSE, "")}
  /\ nextId' = nextId + 1
  /\ status' = [status EXCEPT ![child] = "INITIALIZING"]
  /\ SetCall(c, [me EXCEPT !.pc = "sp_seq", !.child = child])
  /\ UNCHANGED <<activeStreams, aborted, stopRequested, queuedActions, pending, nextCtl,
                 cleanupLog, timers, sidebar>>

\* const parentNextSequence = await this.getNextSequence(parentTaskId)
StackedSeq(c) ==
  LET me == Me(c) IN
  /\ me.pc = "sp_seq"
  /\ SetCall(c, [me EXCEPT !.seqTmp = NextSequence(db, me.task), !.pc = "sp_ins"])
  /\ UNCHANGED <<activeStreams, aborted, stopRequested, queuedActions, db, nextId,
                 pending, status, nextCtl, aux>>

\* the message in the parent task that references the stacked task
StackedInsert(c) ==
  LET me == Me(c) IN
  /\ me.pc = "sp_ins"
  /\ db' = db \cup {Row(nextId, me.task, me.seqTmp, "USER", me.msg, <<>>, FALSE, me.child)}
  /\ nextId' = nextId + 1
  /\ SetCall(c, [me EXCEPT !.pc = "sp_init", !.seqTmp = 0])
  /\ UNCHANGED <<activeStreams, aborted, stopRequested, queuedActions, pending, status,
                 nextCtl, aux>>

\* initializeStackedTask: status RUNNING, and the first turn is scheduled with setTimeout
StackedInit(c) ==
  LET me == Me(c) IN
  /\ me.pc = "sp_init"
  /\ status' = [status EXCEPT ![me.child] = "RUNNING"]
  /\ timers' = timers \cup {me.child}
  /\ SetCall(c, Finish(me, "created"))
  /\ UNCHANGED <<activeStreams, aborted, stopRequested, queuedActions, db, nextId,
                 pending, nextCtl, cleanupLog, tasks, sidebar>>

\* the timer fires: processUserMessage({taskId: child, skipUserMessageSave: true})
StackedFirstTurn(c, child) ==
  /\ FirstIdle(c)
  /\ child \in timers
  /\ timers' = timers \ {child}
  /\ SetCall(c, [Idle EXCEPT !.kind = "submit", !.pc = "follow", !.task = child,
                             !.skipSave = TRUE, !.msg = "first"])
  /\ UNCHANGED <<activeStreams, aborted, stopRequested, queuedActions, db, nextId,
                 pending, status, nextCtl, cleanupLog, tasks, sidebar>>

\* ---- specifications
\* the chunks a completion stream can yield
ContentEv(t) == Ev("content", t, "", "")
ErrorEv == Ev("error", "boom", "", "")
UsageEv == Ev("usage", "", "", "")
OrchestratorEvents == {ContentEv("a"), ErrorEv, UsageEv}
ReducerEvents ==
  {ContentEv(""), ContentEv("a"), ContentEv("b"), ErrorEv, UsageEv,
   Ev("reasoning", "", "", ""), Ev("reasoning", "r", "", ""), Ev("reasoning", "s", "", ""),
   Ev("reasoning-signature", "g", "", ""), Ev("redacted-reasoning", "x", "", ""),
   Ev("tool-call", "", "i", "n"), Ev("tool-result", "", "i", ""),
   Ev("tool-result", "", "j", "")}

\* the steps of a turn after its entry
StopStep(c) == StopFlush(c) \/ StopStatus(c)
TurnStep(c) ==
  \/ SaveUser(c) \/ StreamEnd(c) \/ AssistantSeq(c) \/ AssistantInsert(c)
  \/ FinalWrite(c) \/ FinalFlush(c) \/ StatusByOutcome(c)
  \/ Teardown(c) \/ ProcessQueuedActions(c)
ErrorStep(c) == ErrorWrite(c) \/ ErrorStatus(c) \/ ErrorBreak(c)
CatchStep(c) == StreamThrow(c) \/ CatchStatus(c) \/ CatchRethrow(c)

\* two callers on one task: submissions (immediate or queued) and stop requests
Next ==
  \/ \E c \in {1, 2} : \E q \in BOOLEAN : Submit(c, "t1", q)
  \/ \E c \in {1, 2} : StartStop(c, "t1")
  \/ \E c \in {1, 2} : Follow(c) \/ StopStep(c) \/ TurnStep(c) \/ ErrorStep(c) \/ CatchStep(c)
  \/ \E c \in {1, 2} : History(c, FALSE, FALSE)
  \/ \E c \in {1, 2} : \E ev \in OrchestratorEvents : Chunk(c, ev, MaxEvents)
  \/ BatchTimer("t1")

Spec == Init /\ [][Next]_vars

\* queueing scenario: one caller submits, two more queue a message behind the
\* stream they see or stop it, and the queued message runs when the turn ends
NextQueue ==
  \/ Submit(1, "t1", FALSE)
  \/ \E c \in {2, 3} : SubmitBehind(c, "t1")
  \/ \E c \in {2, 3} : StartStop(c, "t1")
  \/ \E c \in Calls : Follow(c) \/ StopStep(c) \/ TurnStep(c) \/ ErrorStep(c) \/ CatchStep(c)
  \/ \E c \in Calls : History(c, FALSE, FALSE)
  \/ \E c \in Calls : \E ev \in OrchestratorEvents : Chunk(c, ev, MaxQueueEvents)
  \/ BatchTimer("t1")

SpecQueue == Init /\ [][NextQueue]_vars

\* failing-provider scenario: every stream yields an error chunk or nothing, so no
\* assistant row exists; two callers submit and a third queues behind a stream
NextRace ==
  \/ \E c \in {1, 2} : Submit(c, "t1", FALSE)
  \/ SubmitBehind(3, "t1")
  \/ \E c \in Calls : Follow(c) \/ StopStep(c) \/ SaveUser(c)
  \/ \E c \in Calls : History(c, FALSE, FALSE)
  \/ \E c \in Calls : Chunk(c, ErrorEv, MaxQueueEvents) \/ StreamEnd(c)
  \/ \E c \in Calls : ErrorStatus(c) \/ ErrorBreak(c) \/ CatchStep(c)
  \/ \E c \in Calls : StatusByOutcome(c) \/ Teardown(c) \/ ProcessQueuedActions(c)

SpecRace == Init /\ [][NextRace]_vars

\* reducer scenario: one turn over every kind of chunk, with a stop request; the
\* tools or the system prompt may fail before the first chunk
NextReducer ==
  \/ Submit(1, "t1", FALSE)
  \/ StartStop(2, "t1")
  \/ \E c \in {1, 2} : StopStep(c) \/ TurnStep(c) \/ ErrorStep(c) \/ CatchStep(c)
  \/ History(1, FALSE, FALSE) \/ ToolsThrow(1)
  \/ \E ev \in ReducerEvents : Chunk(1, ev, MaxStreamLen)
  \/ BatchTimer("t1")

SpecReducer == Init /\ [][NextReducer]_vars

\* sequence scenario: two callers submit on a task without system messages, so each
\* turn saves its user message, system messages and an assistant row
NextSeq ==
  \/ \E c \in {1, 2} : Submit(c, "t1", FALSE)
  \/ \E c \in {1, 2} : StopStep(c) \/ SaveUser(c)
  \/ \E c \in {1, 2} : \E wiki, mem \in BOOLEAN : History(c, wiki, mem)
  \/ \E c \in {1, 2} : SystemSeq(c) \/ SystemInsert(c)
  \/ \E c \in {1, 2} : Chunk(c, ContentEv("a"), MaxSeqEvents) \/ StreamEnd(c)
  \/ \E c \in {1, 2} : AssistantSeq(c) \/ AssistantInsert(c) \/ FinalFlush(c)
  \/ \E c \in {1, 2} : StatusByOutcome(c) \/ Teardown(c) \/ ProcessQueuedActions(c)

SpecSeq == Init /\ [][NextSeq]_vars

\* the same scenario on a task that has no message yet
InitFresh ==
  /\ activeStreams = [t \in Tasks |-> NoCtl]
  /\ aborted = {}
  /\ stopRequested = {}
  /\ queuedActions = [t \in Tasks |-> NoAction]
  /\ db = RowsOf(InitialLog, "t2")
  /\ nextId = 6
  /\ pending = [t \in Tasks |-> NoUpdate]
  /\ status = [t \in Tasks |-> "RUNNING"]
  /\ nextCtl = 1
  /\ calls = [c \in Calls |-> Idle]
  /\ cleanupLog = <<>>
  /\ tasks = {"t1", "t2"}
  /\ timers = {}
  /\ sidebar = Unmounted("tasks", "data")

SpecFresh == InitFresh /\ [][NextSeq]_vars

\* pipeline scenario: one turn with a message queued behind it; the commit, the PR
\* or the checkpoint of a completed turn may fail
NextPipeline ==
  \/ Submit(1, "t1", FALSE)
  \/ SubmitBehind(2, "t1")
  \/ \E c \in {1, 2} : Follow(c) \/ SaveUser(c) \/ History(c, FALSE, FALSE)
  \/ \E c \in {1, 2} : \E ev \in OrchestratorEvents : Chunk(c, ev, MaxQueueEvents)
  \/ \E c \in {1, 2} : StreamEnd(c) \/ AssistantSeq(c) \/ AssistantInsert(c)
  \/ \E c \in {1, 2} : FinalWrite(c) \/ FinalFlush(c)
  \/ \E c \in {1, 2} : \E pipe \in PipelineOutcomes : StatusStep(c, pipe)
  \/ \E c \in {1, 2} : Teardown(c) \/ ProcessQueuedActions(c)
  \/ \E c \in {1, 2} : ErrorStep(c) \/ CatchStep(c)
  \/ BatchTimer("t1")

SpecPipeline == Init /\ [][NextPipeline]_vars

\* interrupt scenario: a turn, a message queued behind it, then an immediate message
NextInterrupt ==
  \/ Submit(1, "t1", FALSE)
  \/ SubmitBehind(2, "t1")
  \/ Submit(3, "t1", FALSE)
  \/ \E c \in Calls : Follow(c) \/ StopStep(c) \/ SaveUser(c)
  \/ \E c \in Calls : History(c, FALSE, FALSE)
  \/ \E c \in Calls : Chunk(c, ContentEv("a"), MaxSeqEvents) \/ StreamEnd(c)
  \/ \E c \in Calls : AssistantSeq(c) \/ AssistantInsert(c) \/ FinalFlush(c)
  \/ \E c \in Calls : StatusByOutcome(c) \/ Teardown(c) \/ ProcessQueuedActions(c)

SpecInterrupt == Init /\ [][NextInterrupt]_vars

\* stacked-task scenario: one turn, two callers that queue a message or a stacked PR
\* behind it (or create the stacked task at once), and the first turn of the new task
NextStacked ==
  \/ Submit(1, "t1", FALSE)
  \/ \E c \in {2, 3} : SubmitBehind(c, "t1")
  \/ \E c \in {2, 3} : StartStacked(c, "t1", TRUE)
  \/ \E c \in Calls : Follow(c) \/ SaveUser(c) \/ History(c, FALSE, FALSE)
  \/ \E c \in Calls : Chunk(c, ContentEv("a"), MaxSeqEvents) \/ StreamEnd(c)
  \/ \E c \in Calls : AssistantSeq(c) \/ AssistantInsert(c) \/ FinalFlush(c)
  \/ \E c \in Calls : StatusByOutcome(c) \/ Teardown(c) \/ ProcessQueuedActions(c)
  \/ \E c \in Calls : \E ok \in BOOLEAN : StackedParent(c, ok)
  \/ \E c \in Calls : \E child \in Tasks : StackedCreate(c, child)
  \/ \E c \in Calls : StackedSeq(c) \/ StackedInsert(c) \/ StackedInit(c)
  \/ \E c \in {2, 3} : \E child \in Tasks : StackedFirstTurn(c, child)

SpecStacked == Init /\ [][NextStacked]_vars

\* two-task scenario: a turn on t1, a turn or an edit on t2, and a third caller that
\* stops, cleans up or queues behind either task
NextTasks ==
  \/ Submit(1, "t1", FALSE)
  \/ Submit(2, "t2", FALSE)
  \/ \E id \in 1 .. MaxEditId : StartEdit(2, "t2", id)
  \/ \E t \in {"t1", "t2"} : StartStop(3, t) \/ StartCleanup(3, t) \/ SubmitBehind(3, t)
  \/ EditUpdate(2) \/ EditFind(2) \/ EditDelete(2) \/ CleanupFinish(3)
  \/ \E c \in Calls : Follow(c) \/ StopStep(c) \/ SaveUser(c)
  \/ \E c \in Calls : History(c, FALSE, FALSE)
  \/ \E c \in Calls : Chunk(c, ContentEv("a"), MaxSeqEvents) \/ StreamEnd(c)
  \/ \E c \in Calls : AssistantSeq(c) \/ AssistantInsert(c) \/ FinalFlush(c)
  \/ \E c \in Calls : StatusByOutcome(c) \/ Teardown(c) \/ ProcessQueuedActions(c)
  \/ \E c \in Calls : CatchStep(c)

SpecTasks == Init /\ [][NextTasks]_vars

\* edit scenario: a turn on one task, then edits of user messages of either task
NextEdit ==
  \/ Submit(1, "t1", FALSE)
  \/ \E t \in {"t1", "t2"} : \E id \in 1 .. MaxEditId : StartEdit(2, t, id)
  \/ EditUpdate(2) \/ EditFind(2) \/ EditDelete(2) \/ Follow(2)
  \/ \E c \in {1, 2} : StopStep(c) \/ TurnStep(c) \/ ErrorStep(c) \/ CatchStep(c)
  \/ \E c \in {1, 2} : History(c, FALSE, FALSE)
  \/ \E c \in {1, 2} : \E ev \in OrchestratorEvents : Chunk(c, ev, MaxQueueEvents)
  \/ \E t \in {"t1", "t2"} : BatchTimer(t)

SpecEdit == Init /\ [][NextEdit]_vars

\* cleanup scenario: a turn, a message queued behind it, and cleanupTask called twice
NextCleanup ==
  \/ Submit(1, "t1", FALSE)
  \/ SubmitBehind(2, "t1")
  \/ \E c \in {2, 3} : StartCleanup(c, "t1")
  \/ \E c \in {2, 3} : CleanupFinish(c)
  \/ Follow(1) \/ TurnStep(1) \/ ErrorStep(1) \/ CatchStep(1)
  \/ History(1, FALSE, FALSE)
  \/ \E ev \in OrchestratorEvents : Chunk(1, ev, MaxQueueEvents)
  \/ BatchTimer("t1")

SpecCleanup == Init /\ [][NextCleanup]_vars

\* a turn, a message queued behind it, and a failure of createTools or getSystemPrompt;
\* every awaited call returns, so each continuation of a running turn is taken
Progress(c) ==
  \/ Follow(c) \/ History(c, FALSE, FALSE)
  \/ TurnStep(c) \/ ErrorStep(c) \/ CatchStep(c)

NextLive ==
  \/ Submit(1, "t1", FALSE)
  \/ SubmitBehind(2, "t1")
  \/ \E c \in {1, 2} : Progress(c)
  \/ \E c \in {1, 2} : ToolsThrow(c)
  \/ \E c \in {1, 2} : \E ev \in OrchestratorEvents : Chunk(c, ev, MaxQueueEvents)
  \/ BatchTimer("t1")

SpecLive ==
  /\ Init /\ [][NextLive]_vars
  /\ \A c \in {1, 2} : WF_vars(Progress(c))
  /\ WF_vars(BatchTimer("t1"))

\* the sidebar on its own: mounts, navigation between tasks, view changes, task queries
NextSidebar ==
  \/ \E id \in TaskIds : Mount(id) \/ Navigate(id)
  \/ RunEffect
  \/ \E view \in SidebarView : SetSidebarView(view)
  \/ \E q \in QueryStates : TasksQuery(q)
  \/ Unmount

SpecSidebar == Init /\ [][NextSidebar]_vars

\* ------------------------------------------------------------------ claims
\* a turn between the registration of its abort controller and its teardown
InTurn(c) ==
  /\ calls[c].kind = "submit" /\ calls[c].registered
  /\ calls[c].pc \notin {"pqa", "catch_mcp", "done"}

\* C1: the sequence numbers given to the messages of one task are pairwise distinct
\* and grow in the order in which the messages were inserted
SequencesIncrease ==
  \A m, n \in db : (m.task = n.task /\ m.id < n.id) => m.seq < n.seq

\* C2: at no time are two turns of the same task between registering their abort
\* controller and finishing their teardown
OneTurnPerTask ==
  \A c, d \in Calls :
    (c # d /\ InTurn(c) /\ InTurn(d)) => calls[c].task # calls[d].task

\* C3: an immediate submission that found a stream registered goes on to persist its
\* message and to start its stream only after that stream's controller was aborted
\* and stopStream set the status Stopped
InterruptCancelsFirst ==
  \A c \in Calls :
    (calls[c].kind = "submit" /\ calls[c].interrupted # NoCtl
       /\ calls[c].pc \notin {"stop_flush", "stop_status"})
    => (calls[c].interrupted \in aborted /\ calls[c].stopDone)

InterruptedTurnStreams ==
  \E c \in Calls :
    /\ calls[c].kind = "submit" /\ calls[c].interrupted # NoCtl
    /\ calls[c].pc = "loop" /\ calls[c].nEv > 0
    /\ \E m \in db : m.task = calls[c].task /\ m.content = calls[c].msg

\* C4: a submission with queue set that finds a stream registered aborts nothing,
\* leaves activeStreams, the stop flag, the rows and the pending update as they are,
\* and leaves its own message as the queued action of the task
QueueLeavesStream ==
  [][\A c \in Calls :
       (calls[c].kind = "idle" /\ calls'[c].outcome = "queued")
       => /\ activeStreams[calls'[c].task] # NoCtl
          /\ UNCHANGED <<activeStreams, aborted, stopRequested, db, pending, status>>
          /\ queuedActions' = [queuedActions EXCEPT ![calls'[c].task] =
                                  [type |-> "message", message |-> MsgOf(c)]]]_vars

QueuedMessageReplaced ==
  /\ calls[2].outcome = "queued" /\ calls[3].outcome = "queued"
  /\ calls[1].pc = "loop" /\ ~calls[1].fromQueue /\ calls[1].nEv > 0
  /\ pending["t1"] # NoUpdate
  /\ queuedActions["t1"] = [type |-> "message", message |-> MsgOf(3)]

\* C5: a queued action is never started by a turn that received an error chunk
NoQueueAfterError ==
  \A c \in Calls : ~(calls[c].fromQueue /\ calls[c].parentErr)

\* the chunks of one kind that a turn has handled, in arrival order
EventsOf(log, type) == SelectSeq(log, LAMBDA e : e.type = type)
Texted(log) == SelectSeq(log, LAMBDA e : e.text # "")

RECURSIVE Concat(_)
Concat(log) == IF log = <<>> THEN "" ELSE Head(log).text \o Concat(Tail(log))

TextParts(log) == [i \in 1 .. Len(log) |-> Part("text", log[i].text, "", "", "")]
ReasoningPartsOf(parts) == SelectSeq(parts, LAMBDA q : q.type = "reasoning")

\* a turn that has left the loop and finished its writes
Settled(c) == calls[c].kind = "submit" /\ calls[c].pc \in {"status", "teardown", "pqa"}

\* C6: a turn that received an error chunk has made exactly one immediate write of
\* its assistant message when its writes are over
ErrorWritesOnce ==
  \A c \in Calls : (Settled(c) /\ calls[c].hasError) => calls[c].nWrites = 1

\* a turn whose stream yielded content chunks, then one usage chunk, and ended
\* without error or stop
ContentTurn(c) ==
  LET log == calls[c].evlog IN
  /\ Settled(c) /\ ~calls[c].hasError /\ ~calls[c].stopped
  /\ calls[c].nEv = Len(log) /\ Len(log) >= 2
  /\ log[Len(log)].type = "usage"
  /\ \A i \in 1 .. Len(log) - 1 : log[i].type = "content"

\* C7 as stated: the row of such a turn holds the concatenated text, one text part
\* for each content chunk in arrival order, and is no longer streaming
TextPartPerContentEvent ==
  \A c \in Calls :
    ContentTurn(c) =>
      \E m \in db :
        /\ m.id = calls[c].asstId
        /\ m.content = Concat(EventsOf(calls[c].evlog, "content"))
        /\ m.parts = TextParts(EventsOf(calls[c].evlog, "content"))
        /\ ~m.streaming

\* C7: when some content chunk carries text, the row of such a turn holds the
\* concatenated text, one text part for each content chunk that carries text, in
\* arrival order, and is no longer streaming
TextPartPerTextedContent ==
  \A c \in Calls :
    (ContentTurn(c) /\ Texted(calls[c].evlog) # <<>>) =>
      \E m \in db :
        /\ m.id = calls[c].asstId
        /\ m.content = Concat(EventsOf(calls[c].evlog, "content"))
        /\ m.parts = TextParts(Texted(EventsOf(calls[c].evlog, "content")))
        /\ ~m.streaming

TwoChunksPersisted ==
  \E c \in Calls :
    /\ ContentTurn(c) /\ calls[c].pc = "pqa"
    /\ calls[c].evlog = <<ContentEv("a"), ContentEv("b"), UsageEv>>
    /\ \E m \in db : m.id = calls[c].asstId /\ m.content = "ab" /\ Len(m.parts) = 2

\* the sequence of the message an edit names
SeqOfRow(d, id) == (CHOOSE m \in d : m.id = id).seq

\* C8: the delete step of an edit of the message at sequence S of task T removes
\* the rows of T with a sequence above S and no other row
EditDeletesLater ==
  [][\A c \in Calls :
       (calls[c].pc = "e_delete" /\ calls'[c].pc # "e_delete" /\ HasRow(db, calls[c].editId))
       => /\ db' \subseteq db
          /\ \A m \in db :
               m \in db' <=> ~(m.task = calls[c].task
                                /\ m.seq > SeqOfRow(db, calls[c].editId))]_vars

EditDeletedReply ==
  \E c \in Calls :
    /\ calls[c].isReplay /\ calls[c].pc = "follow"
    /\ calls[c].task = "t1" /\ calls[c].editId = 1
    /\ {m.id : m \in RowsOf(db, "t1")} = {1}
    /\ RowsOf(db, "t2") = RowsOf(InitialLog, "t2")

\* C9: cleanupTask never throws, leaves no controller, queued action or pending
\* update for the task, and changes none of the three when they are already gone
CleanupIdempotent ==
  [][\A c \in Calls :
       /\ (calls[c].kind = "idle" /\ calls'[c].kind = "cleanup")
          => /\ activeStreams'[calls'[c].task] = NoCtl
             /\ UNCHANGED <<queuedActions, pending>>
             /\ activeStreams[calls'[c].task] = NoCtl => UNCHANGED <<activeStreams, aborted>>
       /\ (calls[c].pc = "c_mcp" /\ calls'[c].pc # "c_mcp")
          => /\ calls'[c].outcome = "cleaned"
             /\ queuedActions'[calls[c].task] = NoAction
             /\ pending'[calls[c].task] = NoUpdate
             /\ UNCHANGED activeStreams
             /\ (queuedActions[calls[c].task] = NoAction /\ pending[calls[c].task] = NoUpdate)
                  => UNCHANGED <<queuedActions, pending>>]_vars

SecondCleanupChangedNothing ==
  /\ cleanupLog = <<(<<"t1", TRUE>>), (<<"t1", FALSE>>)>>
  /\ activeStreams["t1"] = NoCtl /\ queuedActions["t1"] = NoAction
  /\ pending["t1"] = NoUpdate

\* a turn that has left the loop without an error or a signature chunk
UnsignedTurn(c) ==
  /\ calls[c].kind = "submit"
  /\ calls[c].pc \in {"status", "final_write", "final_flush", "teardown", "pqa"}
  /\ ~calls[c].hasError
  /\ EventsOf(calls[c].evlog, "reasoning-signature") = <<>>

\* C10 as stated: after reasoning chunks and no signature the parts list holds
\* exactly one reasoning part, with the concatenated reasoning text
OneReasoningPart ==
  \A c \in Calls :
    (UnsignedTurn(c) /\ EventsOf(calls[c].evlog, "reasoning") # <<>>) =>
      ReasoningPartsOf(calls[c].parts) =
        <<Part("reasoning", Concat(EventsOf(calls[c].evlog, "reasoning")), "", "", "")>>

\* C10: after reasoning chunks of which one carries text, and no signature, the
\* parts list holds exactly one reasoning part, with the concatenated reasoning text
OneReasoningPartForText ==
  \A c \in Calls :
    (UnsignedTurn(c) /\ Texted(EventsOf(calls[c].evlog, "reasoning")) # <<>>) =>
      ReasoningPartsOf(calls[c].parts) =
        <<Part("reasoning", Concat(EventsOf(calls[c].evlog, "reasoning")), "", "", "")>>

RunOfReasoningFinalized ==
  \E c \in Calls :
    /\ UnsignedTurn(c) /\ ~calls[c].stopped
    /\ calls[c].evlog = <<Ev("reasoning", "r", "", ""), Ev("reasoning", "s", "", "")>>
    /\ calls[c].parts = <<Part("reasoning", "rs", "", "", "")>>

\* the turn of call c handles the chunk e in this step
Handles(c, e) == calls[c].pc = "loop" /\ calls'[c].evlog = Append(calls[c].evlog, e)

SignatureEv == Ev("reasoning-signature", "g", "", "")

\* C11: a reasoning-signature chunk that finds no pending reasoning block adds no
\* part, leaves the reasoning counter, schedules no update, writes nothing and
\* lets the loop go on
StraySignatureIsNoOp ==
  [][\A c \in Calls :
       (Handles(c, SignatureEv) /\ calls[c].reasoning = "")
       => /\ calls'[c].parts = calls[c].parts
          /\ calls'[c].reasoningCounter = calls[c].reasoningCounter
          /\ calls'[c].reasoning = ""
          /\ calls'[c].pc = "loop" /\ ~calls'[c].hasError
          /\ UNCHANGED <<pending, db, status, activeStreams>>]_vars

StraySignatureSeen ==
  \E c \in Calls :
    /\ calls[c].pc = "loop"
    /\ calls[c].evlog = <<ContentEv("a"), SignatureEv>>
    /\ calls[c].asstId # 0 /\ pending[calls[c].task] = NoUpdate
    /\ calls[c].parts = <<Part("text", "a", "", "", "")>>

\* the name of the first tool-call chunk with the identifier, or none
CallNameIn(log, id) ==
  LET hits == {i \in 1 .. Len(log) : log[i].type = "tool-call" /\ log[i].id = id} IN
  IF hits = {} THEN "" ELSE log[CHOOSE i \in hits : \A j \in hits : i <= j].name

\* C12: a tool-result chunk appends a tool-result part named after the earlier
\* tool-call chunk of the turn with its identifier, or with an empty name when
\* there is none, and the turn goes on without an error
ToolResultNamed ==
  [][\A c \in Calls : \A id \in {"i", "j"} :
       Handles(c, Ev("tool-result", "", id, ""))
       => /\ calls'[c].parts =
               Append(calls[c].parts,
                      Part("tool-result", "", id, CallNameIn(calls[c].evlog, id), ""))
          /\ calls'[c].pc = "loop" /\ ~calls'[c].hasError
          /\ UNCHANGED <<db, status, activeStreams>>]_vars

ToolResultsMatchedAndNot ==
  \E c \in Calls :
    /\ calls[c].evlog = <<Ev("tool-call", "", "i", "n"), Ev("tool-result", "", "i", ""),
                          Ev("tool-result", "", "j", "")>>
    /\ calls[c].parts = <<Part("tool-call", "", "i", "n", ""),
                          Part("tool-result", "", "i", "n", ""),
                          Part("tool-result", "", "j", "", "")>>
    /\ calls[c].pc = "loop"

\* the turn of call c, registered, throws to its caller in this step
Throws(c) ==
  /\ calls[c].registered /\ calls'[c].pc = "done"
  /\ calls'[c].outcome \in {"threw", "threw-outside"}

\* C13: an exception of a registered turn reaches the caller only through the catch
\* block, which sets the status FAILED and releases the controller and the stop flag
ThrowsAreCaught ==
  [][\A c \in Calls :
       /\ Throws(c) => calls[c].pc = "catch_mcp"
       /\ (calls[c].pc = "catch_status" /\ calls'[c].pc = "catch_mcp")
          => /\ status'[calls[c].task] = "FAILED"
             /\ activeStreams'[calls[c].task] = NoCtl
             /\ calls[c].task \notin stopRequested']_vars

\* C14: the commit, pull-request and checkpoint steps run only for a turn that got
\* no error chunk and whose controller had not been aborted by a stop when its
\* stream ended
PipelineOnlyAfterSuccess ==
  \A c \in Calls :
    calls[c].pipeline => (~calls[c].hasError /\ ~calls[c].endAborted)

\* C15: when the stream of a turn has ended without an error chunk, the parts stored
\* in its assistant row are the final parts of the turn
NoUpdateLostAtEnd ==
  \A c \in Calls :
    (Settled(c) /\ ~calls[c].hasError /\ calls[c].asstId # 0) =>
      \E m \in db : m.id = calls[c].asstId /\ m.parts = calls[c].parts
Ends(c) == calls[c].registered /\ calls[c].kind = "submit" /\ calls'[c].pc \in {"pqa", "done"}
               /\ calls[c].pc \notin {"pqa", "done"}

\* the notification counts of a turn at its end: the step into "done" sends nothing
\* and forgets the turn, the teardown step sends the last notification itself
AtEnd(c) == IF calls'[c].pc = "pqa" THEN calls'[c] ELSE calls[c]

\* C16: a registered turn that ends, however it ends, has sent one "stream started"
\* and exactly one terminal notification, and no chunk after the terminal one
OneStartOneTerminal ==
  [][\A c \in Calls :
       Ends(c) => /\ AtEnd(c).nStarted = 1
                  /\ AtEnd(c).nEnded = 1
                  /\ ~AtEnd(c).lateChunk]_vars

\* C17: a turn reaches processQueuedActions only through its teardown, which removes
\* the activeStreams entry and the stop flag and sends the stream-ended notification;
\* a stopped or completed turn that finds a queued action there removes it and starts
\* exactly that action, in that one call, and the slot is left empty
DequeueAfterTeardown ==
  [][\A c \in Calls :
       LET me == calls[c]
           action == queuedActions[me.task] IN
       /\ (me.pc # "pqa" /\ calls'[c].pc = "pqa")
            => /\ me.pc = "teardown"
               /\ activeStreams'[me.task] = NoCtl
               /\ me.task \notin stopRequested'
               /\ calls'[c].nEnded = me.nEnded + 1
       /\ (me.pc = "pqa" /\ calls'[c] # me /\ me.outcome \in {"stopped", "completed"})
            => /\ me.nEnded >= 1
               /\ activeStreams[me.task] # me.ctl
               /\ \A d \in Calls \ {c} : calls'[d] = calls[d]
               /\ IF action = NoAction
                    THEN calls'[c].pc = "done" /\ UNCHANGED queuedActions
                    ELSE /\ queuedActions' = [queuedActions EXCEPT ![me.task] = NoAction]
                         /\ calls'[c].kind = "submit" /\ calls'[c].pc = "follow"
                         /\ calls'[c].task = me.task
                         /\ calls'[c].msg = action.message
                         /\ calls'[c].fromQueue /\ ~calls'[c].queue]_vars

DequeuedLastQueued ==
  /\ calls[2].outcome = "queued" /\ calls[3].outcome = "queued"
  /\ calls[1].fromQueue /\ ~calls[1].parentErr /\ calls[1].pc = "follow"
  /\ calls[1].msg \in {MsgOf(2), MsgOf(3)}
  /\ status["t1"] = "COMPLETED"
  /\ queuedActions["t1"] = NoAction

\* a turn in its reducer loop whose controller stopStream has aborted
StoppedInLoop(c) == calls[c].pc = "loop" /\ calls[c].ctl \in aborted

\* C18: stopStream on a task with a registered stream sets the stop flag and aborts
\* the registered controller; a turn stopped in its loop takes no step but leaving the
\* loop without handling a chunk, and a turn that left the loop stopped, with no
\* error chunk handled before, is classified stopped
StopMeansStopped ==
  [][\A c \in Calls :
       /\ (calls[c].kind = "idle" /\ calls'[c].kind = "stop"
             /\ activeStreams[calls'[c].task] # NoCtl)
            => /\ calls'[c].task \in stopRequested'
               /\ activeStreams[calls'[c].task] \in aborted'
       /\ (StoppedInLoop(c) /\ calls'[c] # calls[c])
            => /\ calls'[c].evlog = calls[c].evlog
               /\ calls'[c].pc \in {"status", "final_write", "final_flush"}
       /\ (calls[c].pc = "status" /\ calls'[c].pc = "teardown"
             /\ calls[c].endAborted /\ ~calls[c].hasError)
            => calls'[c].outcome = "stopped"]_vars

IsPrefix(s, t) == Len(s) <= Len(t) /\ SubSeq(t, 1, Len(s)) = s

\* C19: the parts list of a turn only grows at its end, and the parts stored in the
\* turn's assistant row and those of the update pending for that row are prefixes of
\* the turn's parts list after every step
SnapshotsArePrefixes ==
  [][\A c \in Calls :
       LET me == calls[c]
           nx == calls'[c] IN
       /\ (me.registered /\ nx.registered /\ nx.ctl = me.ctl) => IsPrefix(me.parts, nx.parts)
       /\ nx.asstId # 0
            => /\ \A m \in db' : m.id = nx.asstId => IsPrefix(m.parts, nx.parts)
               /\ (pending'[nx.task] # NoUpdate /\ pending'[nx.task].messageId = nx.asstId)
                    => IsPrefix(pending'[nx.task].parts, nx.parts)]_vars

RowBehindPendingSnapshot ==
  /\ calls[1].evlog = <<Ev("reasoning", "r", "", ""), SignatureEv, ContentEv("a")>>
  /\ calls[1].parts = <<Part("reasoning", "r", "", "", "g"), Part("text", "a", "", "", "")>>
  /\ \E m \in db : m.id = calls[1].asstId /\ m.parts = <<Part("reasoning", "r", "", "", "g")>>
  /\ pending["t1"] # NoUpdate /\ pending["t1"].parts = calls[1].parts

UserRows(d, task) == {m \in RowsOf(d, task) : m.role = "USER"}

RECURSIVE ArrivalKinds(_, _)
ArrivalKinds(log, open) ==
  IF log = <<>> THEN <<>>
  ELSE LET e == Head(log)
           rest == Tail(log) IN
       CASE e.type = "reasoning" /\ e.text # "" ->
              (IF open THEN <<>> ELSE <<"reasoning">>) \o ArrivalKinds(rest, TRUE)
         [] e.type = "reasoning-signature" /\ e.text # "" -> ArrivalKinds(rest, FALSE)
         [] e.type \in {"content", "redacted-reasoning"} /\ e.text # "" ->
              <<IF e.type = "content" THEN "text" ELSE e.type>> \o ArrivalKinds(rest, open)
         [] e.type \in {"tool-call", "tool-result", "error"} ->
              <<e.type>> \o ArrivalKinds(rest, open)
         [] OTHER -> ArrivalKinds(rest, open)

KindsOf(parts) == [i \in 1 .. Len(parts) |-> parts[i].type]

\* C21: the final parts list of a turn holds the parts in the order in which the
\* chunks producing them arrived, a reasoning block standing where it began
PartsInArrivalOrder ==
  \A c \in Calls : Settled(c) => KindsOf(calls[c].parts) = ArrivalKinds(calls[c].evlog, FALSE)

PipelineThrew(c) == calls[c].pipe \in {"commit-throws", "pr-throws", "checkpoint-throws"}

\* C23: a completed turn sets the status COMPLETED and goes on to its teardown however
\* the commit, the PR or the checkpoint ends; after a failed pipeline the turn's own
\* steps leave the status alone, its teardown runs, and processQueuedActions starts
\* the queued action or returns with the outcome completed
PipelineFailureSwallowed ==
  [][\A c \in Calls :
       LET me == calls[c]
           nx == calls'[c] IN
       /\ (me.pc = "status" /\ nx # me /\ ~me.hasError /\ ~me.stopped)
            => /\ status'[me.task] = "COMPLETED"
               /\ nx.pc = "teardown" /\ nx.outcome = "completed"
       /\ (PipelineThrew(c) /\ nx # me)
            => /\ status'[me.task] = status[me.task]
               /\ \/ me.pc = "teardown" /\ nx.pc = "pqa" /\ nx.nEnded = me.nEnded + 1
                  \/ /\ me.pc = "pqa" /\ queuedActions[me.task] = NoAction
                     /\ nx.pc = "done" /\ nx.outcome = "completed"
                  \/ /\ me.pc = "pqa" /\ queuedActions[me.task] # NoAction
                     /\ nx.fromQueue /\ nx.msg = queuedActions[me.task].message
                     /\ queuedActions'[me.task] = NoAction]_vars

CommitThrewQueueWaiting ==
  /\ calls[1].pc = "pqa" /\ calls[1].pipe = "commit-throws"
  /\ calls[1].nEnded = 1 /\ activeStreams["t1"] = NoCtl
  /\ status["t1"] = "COMPLETED"
  /\ queuedActions["t1"] # NoAction

\* an immediate submission that has stopped the stream of turn c and has not yet
\* reached the deletion of the queued action
Interrupting(d, c) ==
  /\ calls[d].kind = "submit" /\ calls[d].task = calls[c].task
  /\ calls[d].pc \in {"stop_flush", "stop_status"}
  /\ calls[d].interrupted = calls[c].ctl

\* C24: the action queued when an immediate message interrupts a stream is never
\* started, in particular not by the processQueuedActions of the interrupted turn
InterruptDropsQueued ==
  [][\A c \in Calls :
       (calls[c].pc = "pqa" /\ queuedActions[calls[c].task] # NoAction
          /\ calls'[c].pc = "follow")
       => ~\E d \in Calls \ {c} : Interrupting(d, c)]_vars

RECURSIVE Blocks(_, _)
Blocks(log, cur) ==
  IF log = <<>> THEN (IF cur = "" THEN <<>> ELSE <<Part("reasoning", cur, "", "", "")>>)
  ELSE LET e == Head(log) IN
       CASE e.type = "reasoning" /\ e.text # "" -> Blocks(Tail(log), cur \o e.text)
         [] e.type = "reasoning-signature" /\ e.text # "" /\ cur # "" ->
              <<Part("reasoning", cur, "", "", e.text)>> \o Blocks(Tail(log), "")
         [] OTHER -> Blocks(Tail(log), cur)

\* C26: a signature chunk that finds an open reasoning block appends that block with
\* the signature, closes it and advances the counter; a later reasoning chunk opens a
\* new block; and the parts of a turn that left its loop hold each block once
SignatureFinalizesOnce ==
  [][\A c \in Calls :
       LET me == calls[c]
           nx == calls'[c] IN
       /\ (Handles(c, SignatureEv) /\ me.reasoning # "")
            => /\ nx.parts = Append(me.parts, Part("reasoning", me.reasoning, "", "", "g"))
               /\ nx.reasoning = ""
               /\ nx.reasoningCounter = me.reasoningCounter + 1
       /\ \A x \in {"r", "s"} :
            (Handles(c, Ev("reasoning", x, "", "")) /\ me.reasoning = "")
            => nx.reasoning = x /\ nx.parts = me.parts
                 /\ nx.reasoningCounter = me.reasoningCounter
       /\ (nx.kind = "submit" /\ nx.pc \in {"status", "teardown", "pqa"})
            => ReasoningPartsOf(nx.parts) = Blocks(nx.evlog, "")]_vars

SignedThenFreshBlock ==
  /\ Settled(1)
  /\ calls[1].evlog = <<Ev("reasoning", "r", "", ""), SignatureEv, Ev("reasoning", "s", "", "")>>
  /\ calls[1].parts = <<Part("reasoning", "r", "", "", "g"), Part("reasoning", "s", "", "", "")>>
  /\ calls[1].reasoningCounter = 1

\* the chunks that carry text for the assistant message
TextedEvents == {e \in ReducerEvents : e.type \in {"content", "reasoning", "redacted-reasoning"}
                                       /\ e.text # ""}

\* the update that stands scheduled after the turn of call c has handled a chunk
SnapshotOf(c) ==
  [messageId |-> calls'[c].asstId, parts |-> calls'[c].parts, usage |-> calls'[c].usage,
   fin |-> calls'[c].fin]

\* C27 as stated: every chunk with text that arrives once the assistant row exists
\* schedules a batched update
EveryLaterEventSchedules ==
  [][\A c \in Calls : \A e \in TextedEvents :
       (Handles(c, e) /\ calls[c].asstId # 0)
       => db' = db /\ pending'[calls[c].task] = SnapshotOf(c)]_vars

\* C27: the first chunk with text makes the turn read a sequence and insert one
\* assistant row, marked streaming, with the parts so far; once the row exists a
\* content or redacted-reasoning chunk writes nothing and schedules a batched update
\* of the whole parts list, and a reasoning chunk writes and schedules nothing
RowOnceThenBatched ==
  [][\A c \in Calls :
       LET me == calls[c]
           nx == calls'[c]
           old == RowsOf(db, me.task) IN
       /\ \A e \in TextedEvents :
            /\ (Handles(c, e) /\ me.asstSeq = 0)
                 => nx.pc = "asst_seq" /\ db' = db /\ pending' = pending
            /\ (Handles(c, e) /\ me.asstId # 0 /\ e.type # "reasoning")
                 => /\ nx.pc = "loop" /\ db' = db
                    /\ pending'[me.task] = SnapshotOf(c)
            /\ (Handles(c, e) /\ me.asstId # 0 /\ e.type = "reasoning")
                 => nx.pc = "loop" /\ db' = db /\ pending' = pending
       /\ (me.pc = "asst_seq" /\ nx # me)
            => /\ nx.pc = "asst_ins" /\ db' = db
               /\ \A m \in old : m.seq < nx.asstSeq
               /\ old = {} \/ \E m \in old : nx.asstSeq = m.seq + 1
       /\ (me.pc = "asst_ins" /\ nx # me)
            => /\ me.asstId = 0 /\ nx.pc = "loop"
               /\ \E new \in db' \ db :
                    /\ db' = db \cup {new}
                    /\ new.id = nx.asstId /\ new.task = me.task
                    /\ new.role = "ASSISTANT" /\ new.streaming
                    /\ new.seq = me.asstSeq /\ new.parts = me.parts
       /\ (nx.pc = "asst_seq" /\ me.pc # "asst_seq") => me.asstId = 0 /\ me.asstSeq = 0]_vars

LaterContentScheduled ==
  /\ calls[1].evlog = <<ContentEv("a"), Ev("reasoning", "r", "", ""), ContentEv("b")>>
  /\ calls[1].pc = "loop" /\ calls[1].asstId # 0
  /\ pending["t1"] # NoUpdate /\ pending["t1"].parts = calls[1].parts
  /\ Len(calls[1].parts) = 2
  /\ \E m \in db : m.id = calls[1].asstId /\ m.streaming /\ Len(m.parts) = 1

\* no operation on task t is under way
Quiet(t) == \A c \in Calls : calls[c].kind = "idle" \/ calls[c].pc = "done" \/ calls[c].task # t

\* C28: while no operation on a task is under way, the task has no entry in
\* activeStreams and none in stopRequested
NoKeysWhenQuiet ==
  \A t \in Tasks : Quiet(t) => activeStreams[t] = NoCtl /\ t \notin stopRequested

\* the action a caller leaves in the slot when its request is queued
QueuedBy(c) ==
  [type |-> IF calls'[c].kind = "stacked" THEN "stacked-pr" ELSE "message",
   message |-> MsgOf(c)]

IsQueueStep(c) == calls[c].kind = "idle" /\ calls'[c].outcome = "queued"

\* C29: a queue request, for a message or for a stacked PR, replaces whatever the
\* slot of the task holds; the slot gets a new action by a queue request only; and
\* processQueuedActions starts the action the slot holds and leaves the slot empty
QueueSlotHoldsLast ==
  [][/\ \A c \in Calls :
          LET me == calls[c]
              nx == calls'[c]
              action == queuedActions[me.task] IN
          /\ IsQueueStep(c)
               => queuedActions' = [queuedActions EXCEPT ![nx.task] = QueuedBy(c)]
          /\ (me.pc = "pqa" /\ action # NoAction /\ nx # me)
               => /\ queuedActions' = [queuedActions EXCEPT ![me.task] = NoAction]
                  /\ nx.kind = (IF action.type = "stacked-pr" THEN "stacked" ELSE "submit")
                  /\ nx.msg = action.message /\ nx.fromQueue
     /\ \A t \in Tasks :
          (queuedActions'[t] # queuedActions[t] /\ queuedActions'[t] # NoAction)
          => \E c \in Calls : IsQueueStep(c) /\ calls'[c].task = t]_vars

StackedReplacedMessage ==
  /\ calls[2].outcome = "queued" /\ calls[2].kind = "submit"
  /\ calls[3].outcome = "queued" /\ calls[3].kind = "stacked"
  /\ calls[1].kind = "stacked" /\ calls[1].fromQueue /\ calls[1].msg = MsgOf(3)
  /\ queuedActions["t1"] = NoAction

\* the entries of task t in the three maps of the service
KeysOf(t) == <<activeStreams[t], t \in stopRequested, queuedActions[t]>>

\* C30: a step changes the activeStreams entry, the stop flag or the queued action
\* of a task only if it is a step of an operation on that task
OnlyOwnTaskKeys ==
  [][\A t \in Tasks :
       KeysOf(t)' # KeysOf(t)
       => \E c \in Calls : calls'[c] # calls[c] /\ calls'[c].task = t]_vars

StoppedOtherTaskOnly ==
  /\ calls[3].kind = "stop" /\ calls[3].task = "t2" /\ calls[3].pc = "done"
  /\ calls[2].kind = "submit" /\ calls[2].ctl \in aborted /\ calls[2].pc = "loop"
  /\ "t2" \in stopRequested /\ activeStreams["t2"] = NoCtl
  /\ calls[1].pc = "loop" /\ calls[1].ctl \notin aborted
  /\ activeStreams["t1"] = calls[1].ctl /\ "t1" \notin stopRequested

\* C31: when cleanupTask finishes while an update is pending for the task, the row
\* the update is for holds the pending parts afterwards
CleanupFlushesPending ==
  [][\A c \in Calls :
       LET t == calls[c].task IN
       (calls[c].kind = "cleanup" /\ calls[c].pc = "c_mcp" /\ calls'[c].pc = "done"
          /\ pending[t] # NoUpdate)
       => \A m \in db' : m.id = pending[t].messageId => m.parts = pending[t].parts]_vars

\* C32: a turn submitted when no stream was registered, and for which no stop was
\* requested since it registered, does not leave its loop on a chunk that arrives and
\* is not classified stopped
StaleStopHarmless ==
  [][\A c \in Calls :
       LET me == calls[c]
           nx == calls'[c] IN
       (me.kind = "submit" /\ me.registered /\ me.ctl \notin aborted
          /\ me.interrupted = NoCtl /\ nx # me)
       => /\ (me.pc = "loop" /\ nx.nEv = me.nEv + 1) => nx.evlog # me.evlog
          /\ nx.outcome # "stopped"]_vars

\* the steps in which a turn deletes the activeStreams entry and the stop flag of
\* its task: the error branch, the teardown and the catch block
Releases(c) ==
  \/ calls[c].pc = "err_status" /\ calls'[c].pc = "err_mcp"
  \/ calls[c].pc = "teardown" /\ calls'[c].pc = "pqa"
  \/ calls[c].pc = "catch_status" /\ calls'[c].pc = "catch_mcp"

\* C33: when an interrupted turn releases its registration while a newer turn of
\* the task is registered, the entry of the newer turn stays in activeStreams
TeardownReleasesOwnOnly ==
  [][\A c \in Calls :
       LET t == calls[c].task IN
       (Releases(c) /\ calls[c].ctl \in aborted
          /\ activeStreams[t] # NoCtl /\ activeStreams[t] # calls[c].ctl)
       => activeStreams'[t] = activeStreams[t]]_vars

\* C34: a turn that left its loop without an error chunk and with at least one part
\* has an assistant row in the message table
PartsHaveRow ==
  \A c \in Calls :
    (Settled(c) /\ ~calls[c].hasError /\ calls[c].parts # <<>>)
      => calls[c].asstId # 0 /\ HasRow(db, calls[c].asstId)
\* C35: an action stored in the queue slot of a task is eventually processed or
\* discarded, so the slot is eventually empty again
QueuedEventuallyResolved ==
  \A t \in Tasks : (queuedActions[t] # NoAction) ~> (queuedActions[t] = NoAction)

CtlIds == 1 .. Cardinality(Calls)

\* C36: the controller a turn registered in activeStreams is eventually removed
\* from it, the turn having ended
RegisteredEventuallyRemoved ==
  \A t \in Tasks : \A k \in CtlIds :
    (activeStreams[t] = k) ~> (activeStreams[t] # k)


\* C37: a turn whose controller was aborted without a stop flag, as cleanupTask does,
\* is not classified Completed and does not run the commit, PR and checkpoint pipeline
CleanupAbortNotCompleted ==
  \A c \in Calls :
    (calls[c].kind = "submit" /\ calls[c].endAborted /\ calls[c].task \notin stopRequested)
      => calls[c].outcome # "completed" /\ ~calls[c].pipeline

\* the rows of the log of its task that hold the user message of the turn of c
OwnRows(c) ==
  {m \in RowsOf(db, calls[c].task) : m.role = "USER" /\ m.content = calls[c].msg}

\* C38: when a turn reads the history, the rows it passes on, before it appends its
\* user message, are all the rows of the task but the row of that user message
\* and the user rows that reference a stacked task
HistoryOmitsOnlyOwn ==
  [][\A c \in Calls :
       (calls[c].kind = "submit" /\ calls[c].pc = "history" /\ calls'[c].pc # "history")
         => HistoryRows(db, calls[c].task)
              = {m \in RowsOf(db, calls[c].task) \ OwnRows(c) :
                   ~(m.role = "USER" /\ m.stacked # "")}]_vars

\* a stacked-task creation whose parent or owner check failed
Denied(r) == r.kind = "stacked" /\ r.outcome \in {"message-error", "logged"}

\* C39: a stacked-task creation whose parent or owner check fails ends at that step
\* having created no task, no message and no initialization, it takes no later step,
\* and when it was requested through createStackedPR it answers "message-error"
DeniedStackedCreatesNothing ==
  [][\A c \in Calls :
       /\ (calls[c].kind = "stacked" /\ calls[c].pc = "sp_parent" /\ Denied(calls'[c]))
            => /\ calls'[c].pc = "done"
               /\ ~calls[c].fromQueue => calls'[c].outcome = "message-error"
               /\ tasks' = tasks /\ db' = db /\ timers' = timers /\ status' = status
       /\ Denied(calls[c]) => calls'[c] = calls[c]]_vars

\* a direct request was denied while the parent's log, the task set and the timers
\* are as they were at the start
DeniedDirectRequest ==
  \E c \in Calls :
    /\ calls[c].kind = "stacked" /\ calls[c].pc = "done"
    /\ calls[c].outcome = "message-error"
    /\ tasks = {"t1", "t2"} /\ timers = {}
    /\ \A m \in db : m.stacked = ""

\* C40: the effect of the first render leaves the view of the context as it was;
\* the effect of every later change of currentTaskId sets the view to "agent" for a
\* task id and to "tasks" for null; and whatever the view, the agent and codebase
\* panels are shown only with a task id, the task list being shown without one
SidebarFollowsTask ==
  [][/\ (sidebar.effect /\ ~sidebar'.effect) =>
          sidebar'.sidebarView =
            IF sidebar.isInitialRender THEN sidebar.sidebarView
            ELSE IF sidebar.currentTaskId # NoTaskId THEN "agent" ELSE "tasks"
     /\ (~sidebar.mounted /\ sidebar'.mounted) => sidebar'.sidebarView = sidebar.sidebarView
     /\ sidebar'.panel \in {"agent", "codebase"} => sidebar'.currentTaskId # NoTaskId
     /\ (sidebar'.mounted /\ sidebar'.currentTaskId = NoTaskId) => sidebar'.panel = "tasks"]_vars

\* after the first effect the task id changed to null while the context holds the
\* codebase view: the task list is shown and the effect of the change is scheduled
SidebarLeftTask ==
  /\ sidebar.mounted /\ sidebar.effect /\ ~sidebar.isInitialRender
  /\ sidebar.currentTaskId = NoTaskId
  /\ sidebar.sidebarView = "codebase" /\ sidebar.panel = "tasks"

====
